---- MODULE Spec2Model ----
(***************************************************************************)
(* Model of src/src/data/storage.rs: the conversion of a coordinate store  *)
(* (CooGraphStorage) into a pointer-indexed store (SparseGraphStorage<Ty>) *)
(* by TryFrom::try_from, and the pointer construction ind2ptr.             *)
(*                                                                         *)
(* Tensors are sequences of integers with a device, an element kind and a  *)
(* layout.  Sequences are 1-based here, so element i of a Rust slice is    *)
(* element i + 1 of the sequence; the values stored in perm and the        *)
(* indices recorded in used / touched keep the program's 0-based values.   *)
(* The 64-bit integers of the program are scaled down to KeyBits bits:     *)
(* the linear sort key wraps around modulo 2^KeyBits as i64 arithmetic     *)
(* does in the tensor engine, and `as usize` maps a negative value v to    *)
(* v + 2^KeyBits.                                                          *)
(***************************************************************************)
EXTENDS Integers, Sequences, FiniteSets, TLC

\* Bounds of the model.
MaxDim == 3
MaxE == 2
WideDim == 5
MaxG == 3
MaxLen == 3
KeyBits == 4

VARIABLES
  row_col,   \* CooGraphStorage.row_col: [row, col, device, kind]
  size,      \* CooGraphStorage.size: <<num_rows, num_cols>>
  ty,        \* Ty::get_type(): "Csr" or "Csc"
  caller,    \* who called ind2ptr: "try_from" or "direct"
  pc,        \* position in the program
  keys,      \* the linear sort keys (row * size.1 + col, or col * size.0 + row)
  perm,      \* the argsort result (0-based positions)
  ind,       \* ind2ptr's argument ind: [data, device, kind, contiguous]
  m,         \* ind2ptr's argument m
  out,       \* ind2ptr's output buffer; <<>> while not allocated
  wcount,    \* how many times each slot of out has been written
  used,      \* <<buffer, index>> of every indexing expression evaluated
  touched,   \* <<buffer, index>> of every element actually read or written
  ret,       \* what ind2ptr returned: [tag, err]
  result,    \* what try_from returned: [tag, err]
  store      \* the SparseGraphStorage built by try_from: [ptrs, indices, perm]

vars == <<row_col, size, ty, caller, pc, keys, perm, ind, m, out, wcount,
          used, touched, ret, result, store>>

----------------------------------------------------------------------------
\* Integer arithmetic of the scaled-down width.

KeyMod == 2 ^ KeyBits
KeyMax == 2 ^ (KeyBits - 1) - 1
KeyMin == 0 - 2 ^ (KeyBits - 1)

\* Two's complement wrap-around of a signed KeyBits-bit integer: what the
\* tensor engine's integer kernels produce when a product or sum overflows.
Wrap(x) == ((x - KeyMin) % KeyMod) + KeyMin

\* `v as usize` for a signed v.
AsUsize(v) == v % KeyMod

\* The value a slot of Tensor::empty holds before it is written: any value.
\* It is kept apart from every value the program writes (all are >= 0), so a
\* statement about a slot's value never holds of an unwritten slot by luck.
Uninit == 0 - 1

----------------------------------------------------------------------------
\* Sequences.

SeqsUpTo(S, n) == UNION {[1..k -> S] : k \in 0..n}

PairLists(S) == {<<>>} \cup {<<a>> : a \in S} \cup {<<a, b>> : a \in S, b \in S}

Gather(x, p) == [k \in 1..Len(p) |-> x[p[k] + 1]]

IsSorted(s) == \A i \in 1..Len(s), j \in 1..Len(s) : i < j => s[i] <= s[j]

\* All 0-based permutations that sort ks ascending (argsort; ties in any order).
SortingPerms(ks) ==
  {p \in [1..Len(ks) -> 0..Len(ks) - 1] :
     /\ \A i \in 1..Len(ks), j \in 1..Len(ks) : i # j => p[i] # p[j]
     /\ IsSorted(Gather(ks, p))}

----------------------------------------------------------------------------
\* The coordinate store.

row == row_col.row
col == row_col.col
NumEdges == Len(row_col.row)

\* Variants with the coordinate or the dimension of the wrong side.
PairedSeqSameAsGroup == IF ty = "Csr" THEN row ELSE col
OtherDimSwapped == IF ty = "Csr" THEN size[1] ELSE size[2]

\* The grouping and the paired coordinate, and their dimensions, per orientation.
GroupSeq == IF ty = "Csr" THEN row ELSE col
PairedSeq == IF ty = "Csr" THEN col ELSE row
GroupDim == IF ty = "Csr" THEN size[1] ELSE size[2]
OtherDim == IF ty = "Csr" THEN size[2] ELSE size[1]

\* Variants of the key: paired coordinate first; paired coordinate left out.
LinearKeyPairedMajor(g, p, dim) == Wrap(Wrap(p * dim) + g)
LinearKeyGroupOnly(g, p, dim) == Wrap(g * dim)

\* (&row * size.1).add(&col) for one edge, in wrap-around arithmetic.
LinearKey(g, p, dim) == Wrap(Wrap(g * dim) + p)

LinearKeys == [k \in 1..NumEdges |-> LinearKey(GroupSeq[k], PairedSeq[k], OtherDim)]

----------------------------------------------------------------------------
\* Results.

NoResult == [tag |-> "none", err |-> ""]
Ok == [tag |-> "Ok", err |-> ""]
Err(e) == [tag |-> "Err", err |-> e]
NoStore == [ptrs |-> <<>>, indices |-> <<>>, perm |-> <<>>]

\* check_device!(t, Device::Cpu): the tensor must be CPU-resident.
check_device(t) == IF t.device = "Cpu" THEN Ok ELSE Err("DeviceMismatch")

\* try_tensor_to_slice::<i64>(t): a flat typed view of the tensor's memory.
try_tensor_to_slice(t) ==
  IF t.kind = "Int64" /\ t.contiguous THEN Ok ELSE Err("ConversionError")

----------------------------------------------------------------------------
\* Accesses to the two slices of ind2ptr, ind_data and out_data.

Read(i) == [buf |-> "ind", idx |-> i, val |-> 0]
Write(i, v) == [buf |-> "out", idx |-> i, val |-> v]

\* Variant: indexing without a bounds check.
InBoundsUnchecked(i, len) == TRUE

\* Slice indexing is bounds-checked.
InBounds(i, len) == 0 <= i /\ i < len

\* A store to slot i of buffer o; one outside the buffer does not land in it.
StoreAt(o, i, v) == IF i + 1 \in DOMAIN o THEN [o EXCEPT ![i + 1] = v] ELSE o

\* One access a on the frame t = [out, wcount, used, touched, panicked]:
\* an index out of bounds panics, and after a panic nothing runs.
AccessOn(t, a, indLen) ==
  LET len == IF a.buf = "ind" THEN indLen ELSE Len(t.out)
      ok == InBounds(a.idx, len)
      wr == ok /\ a.buf = "out"
  IN IF t.panicked THEN t
     ELSE [out |-> IF wr THEN StoreAt(t.out, a.idx, a.val) ELSE t.out,
           wcount |-> IF wr THEN StoreAt(t.wcount, a.idx, t.wcount[a.idx + 1] + 1)
                      ELSE t.wcount,
           used |-> t.used \cup {<<a.buf, a.idx>>},
           touched |-> IF ok THEN t.touched \cup {<<a.buf, a.idx>>} ELSE t.touched,
           panicked |-> ~ok]

\* AccessOn with the frame evaluated once, whatever the evaluation order.
Access(s, a, indLen) ==
  CHOOSE r \in {AccessOn(t, a, indLen) : t \in {s}} : TRUE

\* The accesses accs in order.
RECURSIVE Run(_, _, _)
Run(s, accs, indLen) ==
  IF accs = <<>> THEN s
  ELSE Run(Access(s, Head(accs), indLen), Tail(accs), indLen)

\* Variant: the range 0..ind_data[0], exclusive.
Loop1Exclusive(d) == <<Read(0)>> \o [k \in 1..d[1] |-> Write(k - 1, 0)]

\* for i in 0..=ind_data[0] { out_data[i as usize] = 0; }
Loop1(d) == <<Read(0)>> \o [k \in 1..(d[1] + 1) |-> Write(k - 1, 0)]

\* The body of the second loop from iteration i on, with idx carried over:
\* next_idx = ind_data[i + 1] as usize; out_data[j + 1] = i + 1 for j in
\* idx..next_idx.
\* Variant: the count written is i instead of i + 1.
RECURSIVE Loop2FromStale(_, _, _)
Loop2FromStale(d, i, idx) ==
  IF i >= Len(d) - 1 THEN <<>>
  ELSE LET next_idx == AsUsize(d[i + 2])
       IN <<Read(i + 1)>>
          \o [k \in 1..(next_idx - idx) |-> Write(idx + k, i)]
          \o Loop2FromStale(d, i + 1, next_idx)

RECURSIVE Loop2From(_, _, _)
Loop2From(d, i, idx) ==
  IF i >= Len(d) - 1 THEN <<>>
  ELSE LET next_idx == AsUsize(d[i + 2])
       IN <<Read(i + 1)>>
          \o [k \in 1..(next_idx - idx) |-> Write(idx + k, i + 1)]
          \o Loop2From(d, i + 1, next_idx)

\* let mut idx = ind_data[0] as usize; for i in 0..numel - 1 { ... }
Loop2(d) == <<Read(0)>> \o Loop2From(d, 0, AsUsize(d[1]))

\* The first index of the third loop: ind_data[numel - 1] + 1.
Loop3Start(d) == d[Len(d)] + 1

\* Variant: the range ends at m instead of m + 1.
Loop3Exclusive(d, mm) ==
  <<Read(Len(d) - 1)>>
  \o [k \in 1..(mm - Loop3Start(d)) |->
        Write(AsUsize(Loop3Start(d) + k - 1), Len(d))]

\* for i in ind_data[numel - 1] + 1..m + 1 { out_data[i as usize] = numel; }
Loop3(d, mm) ==
  <<Read(Len(d) - 1)>>
  \o [k \in 1..(mm + 1 - Loop3Start(d)) |->
        Write(AsUsize(Loop3Start(d) + k - 1), Len(d))]

\* Variant: the buffer is returned as allocated.
ZeroFillSkipped(o) == o

\* out.zero_()
ZeroFill(o) == [k \in 1..Len(o) |-> 0]

Frame == [out |-> out, wcount |-> wcount, used |-> used, touched |-> touched,
          panicked |-> FALSE]

\* One loop of ind2ptr: its accesses in order, then on to pc value `after`.
RunLoop(accs, after) ==
  \E s \in {Run(Frame, accs, Len(ind.data))} :
    /\ out' = s.out
    /\ wcount' = s.wcount
    /\ used' = s.used
    /\ touched' = s.touched
    /\ pc' = IF s.panicked THEN "panic" ELSE after

----------------------------------------------------------------------------
\* ind2ptr(ind, m)

\* Variant: the output is allocated before the device is checked.
CheckDeviceAfterAlloc ==
  /\ pc = "ind2ptr"
  /\ out' = [k \in 1..(m + 1) |-> Uninit]
  /\ wcount' = [k \in 1..(m + 1) |-> 0]
  /\ IF check_device(ind).tag = "Ok"
     THEN pc' = "alloc" /\ ret' = ret
     ELSE pc' = "ret" /\ ret' = check_device(ind)
  /\ UNCHANGED <<row_col, size, ty, caller, keys, perm, ind, m, used, touched,
                 result, store>>

\* check_device!(ind, Device::Cpu);
CheckDevice ==
  /\ pc = "ind2ptr"
  /\ IF check_device(ind).tag = "Ok"
     THEN pc' = "alloc" /\ ret' = ret
     ELSE pc' = "ret" /\ ret' = check_device(ind)
  /\ UNCHANGED <<row_col, size, ty, caller, keys, perm, ind, m, out, wcount,
                 used, touched, result, store>>

\* let mut out = Tensor::empty(&[m + 1], ...);
Alloc ==
  /\ pc = "alloc"
  /\ out' = [k \in 1..(m + 1) |-> Uninit]
  /\ wcount' = [k \in 1..(m + 1) |-> 0]
  /\ pc' = "slices"
  /\ UNCHANGED <<row_col, size, ty, caller, keys, perm, ind, m, used, touched,
                 ret, result, store>>

\* let ind_data = try_tensor_to_slice::<i64>(ind)?;  (out is of ind's kind and
\* contiguous, so try_tensor_to_slice_mut on it decides the same way)
\* let numel = ind.numel(); if numel == 0 { ... }
Slices ==
  /\ pc = "slices"
  /\ IF try_tensor_to_slice(ind).tag = "Ok"
     THEN pc' = (IF Len(ind.data) = 0 THEN "zero" ELSE "loop1") /\ ret' = ret
     ELSE pc' = "ret" /\ ret' = try_tensor_to_slice(ind)
  /\ UNCHANGED <<row_col, size, ty, caller, keys, perm, ind, m, out, wcount,
                 used, touched, result, store>>

\* return Ok(out.zero_());
Zero ==
  /\ pc = "zero"
  /\ out' = ZeroFill(out)
  /\ wcount' = [k \in 1..Len(out) |-> wcount[k] + 1]
  /\ ret' = Ok
  /\ pc' = "ret"
  /\ UNCHANGED <<row_col, size, ty, caller, keys, perm, ind, m, used, touched,
                 result, store>>

FirstLoop ==
  /\ pc = "loop1"
  /\ RunLoop(Loop1(ind.data), "loop2")
  /\ UNCHANGED <<row_col, size, ty, caller, keys, perm, ind, m, ret, result, store>>

SecondLoop ==
  /\ pc = "loop2"
  /\ RunLoop(Loop2(ind.data), "loop3")
  /\ UNCHANGED <<row_col, size, ty, caller, keys, perm, ind, m, ret, result, store>>

\* The third loop, and Ok(out).
ThirdLoop ==
  /\ pc = "loop3"
  /\ RunLoop(Loop3(ind.data, m), "ret")
  /\ ret' = IF pc' = "ret" THEN Ok ELSE ret
  /\ UNCHANGED <<row_col, size, ty, caller, keys, perm, ind, m, result, store>>

----------------------------------------------------------------------------
\* TryFrom<&CooGraphStorage> for SparseGraphStorage<Ty>

\* let perm = (&row * size.1).add(&col).argsort(0, false);   (Csr)
\* let perm = (&col * size.0).add(&row).argsort(0, false);   (Csc)
Argsort ==
  /\ pc = "try_from"
  /\ \E ks \in {LinearKeys} :
       /\ keys' = ks
       /\ \E p \in SortingPerms(ks) : perm' = p
  /\ pc' = "sorted"
  /\ UNCHANGED <<row_col, size, ty, caller, ind, m, out, wcount, used, touched,
                 ret, result, store>>

\* ind2ptr(&row.i(&perm), size.0)   (Csr);   ind2ptr(&col.i(&perm), size.1)   (Csc)
CallInd2ptr ==
  /\ pc = "sorted"
  /\ ind' = [data |-> Gather(GroupSeq, perm), device |-> row_col.device,
             kind |-> row_col.kind, contiguous |-> TRUE]
  /\ m' = GroupDim
  /\ pc' = "ind2ptr"
  /\ UNCHANGED <<row_col, size, ty, caller, keys, perm, out, wcount, used,
                 touched, ret, result, store>>

\* The `?` on ind2ptr's result, col.i(&perm) / row.i(&perm), and
\* Ok(Self::new(ptrs, indices, Some(perm))).
Finish ==
  /\ pc = "ret"
  /\ caller = "try_from"
  /\ IF ret.tag = "Err"
     THEN result' = ret /\ store' = store
     ELSE /\ result' = Ok
          /\ store' = [ptrs |-> out, indices |-> Gather(PairedSeq, perm),
                       perm |-> perm]
  /\ pc' = "done"
  /\ UNCHANGED <<row_col, size, ty, caller, keys, perm, ind, m, out, wcount,
                 used, touched, ret>>

----------------------------------------------------------------------------
\* Initial states.

Devices == {"Cpu", "Cuda"}
Kinds == {"Int64", "Int"}

NoTensor == [data |-> <<>>, device |-> "Cpu", kind |-> "Int64", contiguous |-> TRUE]

Cells(sz) == (0..sz[1] - 1) \X (0..sz[2] - 1)

\* A call of try_from on the store with the edges es, before its first line.
ConvertCall(sz, es, dev, knd, t) ==
  /\ size = sz
  /\ row_col = [row |-> [k \in 1..Len(es) |-> es[k][1]],
                col |-> [k \in 1..Len(es) |-> es[k][2]],
                device |-> dev, kind |-> knd]
  /\ ty = t
  /\ caller = "try_from"
  /\ pc = "try_from"
  /\ keys = <<>> /\ perm = <<>>
  /\ ind = NoTensor /\ m = 0
  /\ out = <<>> /\ wcount = <<>>
  /\ used = {} /\ touched = {}
  /\ ret = NoResult /\ result = NoResult
  /\ store = NoStore

\* A direct call ind2ptr(t, mm), as tests::test_ind2ptr makes.
DirectCall(t, mm) ==
  /\ size = <<0, 0>>
  /\ row_col = [row |-> <<>>, col |-> <<>>, device |-> "Cpu", kind |-> "Int64"]
  /\ ty = "Csr"
  /\ caller = "direct"
  /\ pc = "ind2ptr"
  /\ keys = <<>> /\ perm = <<>>
  /\ ind = t /\ m = mm
  /\ out = <<>> /\ wcount = <<>>
  /\ used = {} /\ touched = {}
  /\ ret = NoResult /\ result = NoResult
  /\ store = NoStore

\* Stores whose coordinates are within the declared dimensions, of up to
\* MaxE edges, on any device and of any kind, converted to either orientation.
Init ==
  \E sz \in (0..MaxDim) \X (0..MaxDim) :
    \E es \in SeqsUpTo(Cells(sz), MaxE) :
      \E dev \in Devices, knd \in Kinds, t \in {"Csr", "Csc"} :
        ConvertCall(sz, es, dev, knd, t)

\* Stores of at most a pair of edges, with dimensions up to WideDim.
InitWide ==
  \E sz \in (0..WideDim) \X (0..WideDim) :
    \E es \in PairLists(Cells(sz)) :
      \E t \in {"Csr", "Csc"} : ConvertCall(sz, es, "Cpu", "Int64", t)

\* The stores of Init, and stores of at most a pair of edges whose coordinates
\* may lie outside the declared dimensions (nothing validates them).
InitLoose ==
  \/ Init
  \/ \E sz \in (0..MaxDim) \X (0..MaxDim) :
       \E es \in PairLists(((0 - 1)..MaxDim) \X ((0 - 1)..MaxDim)) :
         \E dev \in Devices, knd \in Kinds, t \in {"Csr", "Csc"} :
           ConvertCall(sz, es, dev, knd, t)

\* tests::test_ind2ptr; its values are small against the width of the
\* program's integers, and no cast in ind2ptr changes them.
TestInput == <<3, 3, 3, 4, 4, 7, 7, 8, 8>>
TestOutput == <<0, 0, 0, 0, 3, 5, 5, 5, 7, 9, 9>>
TestM == Len(TestOutput) - 1

TensorKinds ==
  {[device |-> "Cpu", kind |-> "Int64", contiguous |-> TRUE],
   [device |-> "Cuda", kind |-> "Int64", contiguous |-> TRUE],
   [device |-> "Cpu", kind |-> "Int", contiguous |-> TRUE],
   [device |-> "Cpu", kind |-> "Int64", contiguous |-> FALSE]}

\* Direct calls of ind2ptr on any key sequence, sorted or not, with keys in
\* the declared range or up to two off it, and the call of the test.
InitInd ==
  \/ \E mm \in 0..MaxG :
       \E d \in SeqsUpTo((0 - 2)..(MaxG + 1), MaxLen) :
         \E a \in TensorKinds :
           DirectCall([data |-> d, device |-> a.device, kind |-> a.kind,
                       contiguous |-> a.contiguous], mm)
  \/ DirectCall([data |-> TestInput, device |-> "Cpu", kind |-> "Int64",
                 contiguous |-> TRUE], TestM)

Ind2ptrStep ==
  \/ CheckDevice
  \/ Alloc
  \/ Slices
  \/ Zero
  \/ FirstLoop
  \/ SecondLoop
  \/ ThirdLoop

Next ==
  \/ Argsort
  \/ CallInd2ptr
  \/ Ind2ptrStep
  \/ Finish

NextInd == Ind2ptrStep

Spec == Init /\ [][Next]_vars
SpecWide == InitWide /\ [][Next]_vars
SpecLoose == InitLoose /\ [][Next]_vars
SpecInd == InitInd /\ [][NextInd]_vars

----------------------------------------------------------------------------
\* The terms of the claims, stated from the specification's words and
\* independently of the definitions above.

\* Row-grouped groups by row and pairs with column; column-grouped groups by
\* column and pairs with row.  G is the number of groups, E of edges.
SpecGroup == IF ty = "Csr" THEN row_col.row ELSE row_col.col
SpecPaired == IF ty = "Csr" THEN row_col.col ELSE row_col.row
G == IF ty = "Csr" THEN size[1] ELSE size[2]
OtherSize == IF ty = "Csr" THEN size[2] ELSE size[1]
E == Len(row_col.row)

\* The input is CPU-resident and of 64-bit integers.
OnCpuI64 == row_col.device = "Cpu" /\ row_col.kind = "Int64"

\* Every coordinate is within the declared dimensions.
CoordsInRange ==
  \A k \in 1..E : /\ 0 <= row_col.row[k] /\ row_col.row[k] < size[1]
                  /\ 0 <= row_col.col[k] /\ row_col.col[k] < size[2]

\* num_rows * num_cols is representable in the key's integer width.
Representable == size[1] * size[2] <= KeyMax

\* No edge's linear key group * other + paired exceeds the key's width.
KeysFit == \A k \in 1..E : SpecGroup[k] * OtherSize + SpecPaired[k] <= KeyMax

\* Distinct in-range edges cannot have the same wrapped key.
KeysDistinct == size[1] * size[2] <= KeyMod

\* Edge i is before edge j in the lexicographic order of (group, paired).
LexLess(i, j) ==
  \/ SpecGroup[i] < SpecGroup[j]
  \/ SpecGroup[i] = SpecGroup[j] /\ SpecPaired[i] < SpecPaired[j]

CountLess(d, g) == Cardinality({k \in 1..Len(d) : d[k] < g})
CountIn(s, v) == Cardinality({k \in 1..Len(s) : s[k] = v})
EdgesAt(g, v) == Cardinality({k \in 1..E : SpecGroup[k] = g /\ SpecPaired[k] = v})
EdgesIn(g) == Cardinality({k \in 1..E : SpecGroup[k] = g})
Zeros(n) == [k \in 1..n |-> 0]

\* The store's pointer of group g, and whether the pointers delimit slices.
Ptr(g) == store.ptrs[g + 1]
PtrsDelimit ==
  /\ Len(store.ptrs) = G + 1
  /\ Len(store.indices) = E
  /\ \A g \in 0..G : 0 <= Ptr(g) /\ Ptr(g) <= E
  /\ \A g \in 0..G - 1 : Ptr(g) <= Ptr(g + 1)
Slice(g) == [k \in 1..(Ptr(g + 1) - Ptr(g)) |-> store.indices[Ptr(g) + k]]

RECURSIVE SumDegrees(_)
SumDegrees(g) == IF g = 0 THEN 0 ELSE SumDegrees(g - 1) + (Ptr(g) - Ptr(g - 1))

Converted == pc = "done" /\ result.tag = "Ok"

\* The argument of a direct ind2ptr call is usable, sorted and in range.
DirectSorted ==
  /\ caller = "direct"
  /\ ind.device = "Cpu" /\ ind.kind = "Int64" /\ ind.contiguous
  /\ IsSorted(ind.data)
  /\ \A k \in 1..Len(ind.data) : 0 <= ind.data[k] /\ ind.data[k] < m

\* The pointer array ind2ptr builds from the keys d and the group count mm.
PtrsOf(d, mm) ==
  IF Len(d) = 0 THEN Zeros(mm + 1)
  ELSE Run([out |-> [k \in 1..(mm + 1) |-> Uninit], wcount |-> Zeros(mm + 1),
            used |-> {}, touched |-> {}, panicked |-> FALSE],
           Loop1(d) \o Loop2(d) \o Loop3(d, mm), Len(d)).out

----------------------------------------------------------------------------
\* C1: ind2ptr on a sorted key sequence with all keys in 0..G-1 returns Ok with
\* a pointer array of length G+1 whose slot g is the number of keys strictly
\* less than g; the test's input gives the test's expected output.
C1_Ind2ptrCounts ==
  DirectSorted =>
    /\ pc # "panic"
    /\ pc = "ret" =>
         /\ ret = Ok
         /\ Len(out) = m + 1
         /\ \A g \in 0..m : out[g + 1] = CountLess(ind.data, g)
         /\ (ind.data = TestInput /\ m = TestM) => out = TestOutput

C1_Witness ==
  /\ DirectSorted /\ pc = "ret"
  /\ ind.data = TestInput /\ m = TestM /\ out = TestOutput

\* C2 as stated: after converting any store with in-range coordinates, the
\* slice of every group g is the ascending list of the paired coordinates of
\* the edges of group g, degree(g) is their number, and the index sequence as
\* a whole is the multiset of all paired coordinates.
C2_SlicesAreNeighbors ==
  /\ PtrsDelimit
  /\ \A g \in 0..G - 1 :
       /\ IsSorted(Slice(g))
       /\ Len(Slice(g)) = EdgesIn(g)
       /\ \A v \in 0..OtherSize - 1 : CountIn(Slice(g), v) = EdgesAt(g, v)
  /\ \A v \in 0..OtherSize - 1 : CountIn(store.indices, v) = CountIn(SpecPaired, v)

C2_Original == (Converted /\ CoordsInRange) => C2_SlicesAreNeighbors

\* C2 amended: the same, for stores none of whose linear keys exceeds the
\* key's integer width.
C2_Theorem == (Converted /\ CoordsInRange /\ KeysFit) => C2_SlicesAreNeighbors

C2_Witness ==
  /\ Converted /\ CoordsInRange /\ KeysFit
  /\ size[1] # size[2]
  /\ E = 2 /\ SpecGroup[1] = SpecGroup[2] /\ SpecPaired[1] > SpecPaired[2]
  /\ SpecGroup[1] > 0
  /\ C2_SlicesAreNeighbors

\* C3: for every CPU-resident i64 store with in-range coordinates the
\* conversion succeeds with a pointer array that is non-decreasing, starts at 0
\* and ends at E, and whose degrees sum to E.
C3_PointerMonotone ==
  (pc = "done" /\ OnCpuI64 /\ CoordsInRange) =>
    /\ result = Ok
    /\ Len(store.ptrs) = G + 1
    /\ Ptr(0) = 0
    /\ Ptr(G) = E
    /\ \A g \in 0..G - 1 : Ptr(g) <= Ptr(g + 1)
    /\ SumDegrees(G) = E

C3_Witness ==
  /\ Converted /\ CoordsInRange /\ E = MaxE
  /\ \E g \in 1..G - 1 : 0 < Ptr(g) /\ Ptr(g) < E
  /\ Ptr(0) = 0 /\ Ptr(G) = E

\* What C4 says of the permutation and the index sequence.
C4_PermRoundTrip ==
  /\ Len(store.perm) = E
  /\ Len(store.indices) = E
  /\ {store.perm[k] : k \in 1..E} = 0..E - 1
  /\ \A k \in 1..E : store.indices[k] = SpecPaired[store.perm[k] + 1]
  /\ ind.data = [k \in 1..E |-> SpecGroup[store.perm[k] + 1]]

\* What C4 says of the grouping coordinate read through the permutation.
C4_GroupSorted ==
  /\ IsSorted(ind.data)
  /\ Len(store.ptrs) = G + 1
  /\ \A g \in 0..G : Ptr(g) = CountLess(ind.data, g)

\* C4 as stated: the store carries a permutation that is a bijection on
\* 0..E-1, index[k] is the original paired coordinate at perm[k], and the
\* grouping coordinate read through perm is the sorted sequence the pointer
\* array was built from.
C4_Original == Converted => (C4_PermRoundTrip /\ C4_GroupSorted)

\* C4 amended: the bijection and the round trip always hold, and the grouping
\* coordinate read through perm is what ind2ptr was given; it is sorted (and
\* the pointer array counts it) when the coordinates are within the declared
\* dimensions and no linear key exceeds the key's width.
C4_Theorem ==
  Converted =>
    /\ C4_PermRoundTrip
    /\ (CoordsInRange /\ KeysFit) => C4_GroupSorted

C4_Witness ==
  /\ Converted /\ CoordsInRange /\ KeysFit /\ E = 2
  /\ store.perm = <<1, 0>>
  /\ SpecPaired[1] # SpecPaired[2]
  /\ C4_PermRoundTrip /\ C4_GroupSorted

\* C5: converting a CPU-resident i64 store with zero edges (and so calling
\* ind2ptr on an empty key sequence) succeeds with a pointer array of G+1
\* zeros, for every G >= 0, and with empty index and permutation sequences.
C5_EmptyInput ==
  (E = 0 /\ OnCpuI64) =>
    /\ pc # "panic"
    /\ pc = "ret" => (ret = Ok /\ out = Zeros(m + 1) /\ m = G)
    /\ pc = "done" =>
         /\ result = Ok
         /\ store.ptrs = Zeros(G + 1)
         /\ store.indices = <<>>
         /\ store.perm = <<>>

C5_Witness ==
  /\ E = 0 /\ Converted /\ G = MaxDim
  /\ store.ptrs = Zeros(MaxDim + 1) /\ store.indices = <<>>

\* What C6 says of the runs: a run never panics and never stops short of a
\* result, and a successful one ends with a store whose pointer slots have all
\* been written.
C6_RunsComplete ==
  /\ pc # "panic"
  /\ pc # "done" => ENABLED Next
  /\ (pc = "done" /\ OnCpuI64) =>
       /\ result = Ok
       /\ Len(store.ptrs) = G + 1
       /\ \A k \in 1..G + 1 : wcount[k] >= 1 /\ store.ptrs[k] # Uninit
       /\ Len(store.indices) = E /\ Len(store.perm) = E

\* What C6 says of the failures: an input that is not CPU-resident ends in
\* DeviceMismatch, one that is not of 64-bit integers in ConversionError, each
\* as an error value with no store; no store exists before the end; and on a
\* non-CPU input the output array is never allocated.
C6_FailuresAreValues ==
  /\ pc # "done" => (result = NoResult /\ store = NoStore)
  /\ row_col.device # "Cpu" => (out = <<>> /\ wcount = <<>> /\ pc # "panic")
  /\ (row_col.device = "Cpu" /\ row_col.kind # "Int64") =>
       (pc # "panic" /\ wcount = Zeros(Len(out)))
  /\ pc = "done" =>
       /\ row_col.device # "Cpu" =>
            (result = Err("DeviceMismatch") /\ store = NoStore)
       /\ (row_col.device = "Cpu" /\ row_col.kind # "Int64") =>
            (result = Err("ConversionError") /\ store = NoStore)

\* C6 as stated: every failure is returned as an error value and no store is
\* produced; each run ends with a fully built store or an error value, never
\* with an abort or a partly filled store; the device check precedes the
\* allocation of the output array.
C6_Original == C6_FailuresAreValues /\ C6_RunsComplete

\* C6 amended: the same of the failures; of the runs, for stores whose
\* coordinates are within the declared dimensions.
C6_Theorem == C6_FailuresAreValues /\ (CoordsInRange => C6_RunsComplete)

C6_Witness ==
  /\ pc = "done" /\ E > 0 /\ row_col.device = "Cuda"
  /\ result = Err("DeviceMismatch") /\ store = NoStore /\ out = <<>>

\* An index into ind_data or out_data is within the buffer.
WithinBuffer(a) ==
  IF a[1] = "ind" THEN 0 <= a[2] /\ a[2] <= Len(ind.data) - 1
  ELSE 0 <= a[2] /\ a[2] <= m

\* C7 as stated: whatever the keys, every index ind2ptr uses on the input is in
\* 0..E-1 and every index it uses on the pointer array is in 0..G.
C7_Original == \A a \in used : WithinBuffer(a)

\* C7 amended: whatever the keys, every element ind2ptr reads or writes is
\* within its buffer; every index it uses on the input is in 0..E-1; an index
\* it uses on the pointer array can be outside 0..G, and then the bounds check
\* of the slice stops the run with a panic before the element is accessed.
C7_Theorem ==
  /\ \A a \in touched : WithinBuffer(a)
  /\ \A a \in used : a[1] = "ind" => WithinBuffer(a)
  /\ touched \subseteq used
  /\ pc = "panic" <=> (\E a \in used : ~WithinBuffer(a))
  /\ Cardinality(used \ touched) <= 1

C7_Witness ==
  /\ pc = "panic"
  /\ \E k \in 1..Len(ind.data) : ind.data[k] > m
  /\ <<"out", m + 1>> \in used /\ <<"out", m + 1>> \notin touched
  /\ <<"out", m>> \in touched

\* C8: the sort key of edge k is group * other_dimension_size + paired; when
\* the coordinates are in range and num_rows * num_cols is representable, the
\* key is that number exactly, two edges compare by key as they compare
\* lexicographically by (group, paired), and the argsort orders the edges by
\* group first and paired coordinate second.
C8_LinearKeyOrder ==
  (pc # "try_from" /\ caller = "try_from" /\ CoordsInRange /\ Representable) =>
    /\ Len(keys) = E /\ Len(perm) = E
    /\ \A k \in 1..E : keys[k] = SpecGroup[k] * OtherSize + SpecPaired[k]
    /\ \A i \in 1..E, j \in 1..E : keys[i] < keys[j] <=> LexLess(i, j)
    /\ \A a \in 1..E, b \in 1..E :
         a < b => ~LexLess(perm[b] + 1, perm[a] + 1)

C8_Witness ==
  /\ pc = "sorted" /\ CoordsInRange /\ Representable
  /\ size[1] > 1 /\ size[2] > 1 /\ size[1] # size[2]
  /\ E = 2 /\ SpecGroup[1] > SpecGroup[2] /\ SpecPaired[1] < SpecPaired[2]
  /\ keys[1] > keys[2] /\ perm = <<1, 0>>

\* Any permutation that sorts the keys gives the store's pointer and index
\* sequences.
C9_SameForEverySort ==
  \A q \in SortingPerms(keys) :
    /\ store.ptrs = PtrsOf([k \in 1..E |-> SpecGroup[q[k] + 1]], G)
    /\ store.indices = [k \in 1..E |-> SpecPaired[q[k] + 1]]

\* C9 as stated: for every edge list with in-range coordinates the result does
\* not depend on which sorting permutation the argsort returns.
C9_Original == (Converted /\ CoordsInRange) => C9_SameForEverySort

\* C9 amended: the same, for stores whose num_rows * num_cols does not exceed
\* the number of values of the key's integer width, so that only equal edges
\* have equal keys.
C9_Theorem == (Converted /\ CoordsInRange /\ KeysDistinct) => C9_SameForEverySort

C9_Witness ==
  /\ Converted /\ CoordsInRange /\ KeysDistinct
  /\ E = 2 /\ row_col.row[1] = row_col.row[2] /\ row_col.col[1] = row_col.col[2]
  /\ Cardinality(SortingPerms(keys)) = 2
  /\ C9_SameForEverySort

\* C10: on a non-empty sorted key sequence with keys in 0..G-1 the output is
\* allocated unwritten; the first loop writes exactly the slots up to the
\* first key, the second exactly those after it up to the last key, the third
\* the rest, so no slot is written twice and at the return every slot 0..G has
\* been written exactly once.
C10_EachSlotOnce ==
  (DirectSorted /\ Len(ind.data) > 0 /\ out # <<>>) =>
    LET first == ind.data[1]
        last == ind.data[Len(ind.data)]
    IN /\ Len(out) = m + 1 /\ Len(wcount) = m + 1
       /\ \A g \in 0..m :
            /\ wcount[g + 1] <= 1
            /\ wcount[g + 1] = 0 <=> out[g + 1] = Uninit
            /\ pc \in {"slices", "loop1"} => wcount[g + 1] = 0
            /\ pc = "loop2" => (wcount[g + 1] = 1 <=> g <= first)
            /\ pc = "loop3" => (wcount[g + 1] = 1 <=> g <= last)
            /\ pc = "ret" => wcount[g + 1] = 1

C10_Witness ==
  /\ DirectSorted /\ pc = "ret" /\ Len(ind.data) > 1
  /\ 0 < ind.data[1] /\ ind.data[1] < ind.data[Len(ind.data)]
  /\ ind.data[Len(ind.data)] < m - 1
  /\ \A g \in 0..m : wcount[g + 1] = 1

====
